---------------------------- MODULE Spec2Model ----------------------------
(***************************************************************************)
(* A model of the Tasmania Backpacker Bot orchestration layer:             *)
(*   src/agent.py  session store, executor cache, source extractor,        *)
(*                 slot extractor, process_query                           *)
(*   src/app.py    on_submit, clear_chat                                   *)
(*   src/tools.py  duckduckgo_with_sources and the tool facade             *)
(*   src/rag.py    rag_with_sources, rag_query                             *)
(*                                                                         *)
(* Texts are TLA+ strings handled character by character.  Two characters  *)
(* of the source that are not ASCII are written with ASCII stand-ins:      *)
(* Bullet for U+2022 and EmDash for U+2014.                                *)
(***************************************************************************)
EXTENDS Integers, Sequences, FiniteSets, TLC

VARIABLES
    pc,                 \* position of the single request being served
    caller,             \* who called process_query: "on_submit" or "direct"
    query,              \* process_query argument
    session_id,         \* process_query argument
    executor,           \* the executor returned by get_agent_executor
    input_query,        \* the text handed to executor.invoke
    loop,               \* what executor.invoke did (returned / raised)
    seen_history,       \* the chat_history the reasoning loop was given
    search,             \* what duckduckgo_tool.run did (returned / raised)
    search_arg,         \* the text handed to duckduckgo_tool.run
    result,             \* the dict process_query returns
    reply,              \* the text on_submit returns
    n_invoke,           \* executor.invoke calls made by this process_query call
    n_search,           \* duckduckgo_tool.run calls made by this call
    n_direct_tool,      \* weather / forecast tool calls made by process_query itself
    session_histories,  \* agent.session_histories: key -> history object
    heap,               \* the ChatMessageHistory objects, by identity
    agent_cache,        \* the lru_cache of get_agent_executor, least recent first
    n_queries,          \* process_query calls started so far
    reset_result,       \* what clear_chat did, None once a later query has begun
    tool_call,          \* the tool facade call under way or finished
    src_steps,          \* extract_sources_from_steps: argument
    src_out,            \* extract_sources_from_steps: return value
    slot_query,         \* extract_place_and_days: argument
    slot_record,        \* extract_place_and_days: return value
    threads             \* concurrent process_query calls: each thread's position

vars == << pc, caller, query, session_id, executor, input_query, loop,
           seen_history, search, search_arg, result, reply, n_invoke,
           n_search, n_direct_tool, session_histories, heap, agent_cache,
           n_queries, reset_result, tool_call, src_steps, src_out,
           slot_query, slot_record, threads >>

queryVars   == << pc, caller, query, session_id, executor, input_query, loop,
                  seen_history, search, search_arg, result, reply, n_invoke,
                  n_search, n_direct_tool >>
sessionVars == << session_histories, heap, agent_cache, n_queries, reset_result >>
toolVars    == << tool_call >>
sourceVars  == << src_steps, src_out >>
slotVars    == << slot_query, slot_record >>
threadVars  == << threads >>

None == "<none>"

-----------------------------------------------------------------------------
(* Python str operations                                                   *)

Bullet == "~"
EmDash == "^"

Ch(s, i) == SubSeq(s, i, i)

\* the least element of a non-empty set of numbers
Least(S) == CHOOSE x \in S : \A y \in S : x <= y
Drop(s, n) == SubSeq(s, n + 1, Len(s))
\* s[:n], s[n:]
Take(s, n) == SubSeq(s, 1, IF n < Len(s) THEN n ELSE Len(s))

\* sub in s
Contains(s, sub) ==
    \E i \in 1..(Len(s) - Len(sub) + 1) : SubSeq(s, i, i + Len(sub) - 1) = sub

StartsWith(s, p) == Len(p) <= Len(s) /\ Take(s, Len(p)) = p

UpperLetters == "ABCDEFGHIJKLMNOPQRSTUVWXYZ"
LowerLetters == "abcdefghijklmnopqrstuvwxyz"
Digits       == "0123456789"

IndexIn(alphabet, c) ==
    IF \E i \in 1..Len(alphabet) : Ch(alphabet, i) = c
    THEN CHOOSE i \in 1..Len(alphabet) : Ch(alphabet, i) = c
    ELSE 0

IsDigit(c)    == IndexIn(Digits, c) > 0
IsWordChar(c) == IndexIn(UpperLetters, c) > 0 \/ IndexIn(LowerLetters, c) > 0
                 \/ IsDigit(c) \/ c = "_"
IsSpace(c)    == c \in {" ", "\t", "\n", "\r"}

LowerChar(c) ==
    IF IndexIn(UpperLetters, c) > 0 THEN Ch(LowerLetters, IndexIn(UpperLetters, c)) ELSE c

RECURSIVE Lower(_)
\* str.lower()
Lower(s) == IF s = "" THEN "" ELSE LowerChar(Ch(s, 1)) \o Lower(Drop(s, 1))

RECURSIVE LStripSet(_, _)
LStripSet(s, cs) ==
    IF s # "" /\ Ch(s, 1) \in cs THEN LStripSet(Drop(s, 1), cs) ELSE s

RECURSIVE RStripSet(_, _)
RStripSet(s, cs) ==
    IF s # "" /\ Ch(s, Len(s)) \in cs THEN RStripSet(Take(s, Len(s) - 1), cs) ELSE s

\* str.strip(chars)
StripSet(s, cs) == RStripSet(LStripSet(s, cs), cs)

\* str.strip()
Strip(s) == StripSet(s, {" ", "\t", "\n", "\r"})

RECURSIVE Replace(_, _, _)
\* str.replace(old, new), old non-empty: leftmost, non-overlapping
Replace(s, old, new) ==
    IF Len(s) < Len(old) THEN s
    ELSE IF StartsWith(s, old) THEN new \o Replace(Drop(s, Len(old)), old, new)
    ELSE Ch(s, 1) \o Replace(Drop(s, 1), old, new)

RECURSIVE SplitOn(_, _)
\* str.split(sep) for a one-character sep: always at least one piece
SplitOn(s, sep) ==
    IF ~Contains(s, sep) THEN << s >>
    ELSE LET i == Least({k \in 1..Len(s) : Ch(s, k) = sep})
         IN  << Take(s, i - 1) >> \o SplitOn(Drop(s, i), sep)

\* str.splitlines(): no piece for a trailing line break, none for ""
SplitLines(s) ==
    IF s = "" THEN << >>
    ELSE LET parts == SplitOn(s, "\n")
         IN  IF parts[Len(parts)] = "" THEN SubSeq(parts, 1, Len(parts) - 1) ELSE parts

RECURSIVE Join(_, _)
\* sep.join(parts)
Join(parts, sep) ==
    IF parts = << >> THEN ""
    ELSE IF Len(parts) = 1 THEN parts[1]
    ELSE parts[1] \o sep \o Join(Tail(parts), sep)

RECURSIVE StrToNat(_)
\* int(s) for a run of decimal digits
StrToNat(s) ==
    IF s = "" THEN 0
    ELSE 10 * StrToNat(Take(s, Len(s) - 1)) + (IndexIn(Digits, Ch(s, Len(s))) - 1)

RECURSIVE NatToStr(_)
\* str(n) for n >= 0
NatToStr(n) ==
    IF n < 10 THEN Ch(Digits, n + 1)
    ELSE NatToStr(n \div 10) \o Ch(Digits, (n % 10) + 1)

-----------------------------------------------------------------------------
(* agent.extract_place_and_days                                            *)

StopWords == {"forecast", "for", "in", "of", "the", "next", "day", "days",
              "weather", "trip", "plan", "budget"}

DefaultPlace == "Tasmania"
DefaultDays == 3

RECURSIVE DigitRunLen(_)
\* length of the run of digits s starts with
DigitRunLen(s) ==
    IF s # "" /\ IsDigit(Ch(s, 1)) THEN 1 + DigitRunLen(Drop(s, 1)) ELSE 0

RECURSIVE WordRunLen(_)
\* length of the run of word characters s starts with
WordRunLen(s) ==
    IF s # "" /\ IsWordChar(Ch(s, 1)) THEN 1 + WordRunLen(Drop(s, 1)) ELSE 0

\* whether (\d+)\s*(?:day|days) matches s at position i
DaysMatchAt(s, i) ==
    /\ IsDigit(Ch(s, i))
    /\ LET rest == Drop(s, i - 1)
           after == LStripSet(Drop(rest, DigitRunLen(rest)), {" ", "\t", "\n", "\r"})
       IN  StartsWith(after, "day")

\* re.search(r"(\d+)\s*(?:day|days)", s): group(1) of the leftmost match, None if none
DaysMatch(s) ==
    LET at == {i \in 1..Len(s) : DaysMatchAt(s, i)}
        rest == Drop(s, Least(at) - 1)
    IN  IF at # {} THEN Take(rest, DigitRunLen(rest)) ELSE None

RECURSIVE SubStopWords(_)
\* re.sub(r"\b(forecast|...|budget)\b", "", s, flags=re.I): s is read from the start
\* of a word or of a non-word character, so a match is a whole word
SubStopWords(s) ==
    IF s = "" THEN ""
    ELSE IF IsWordChar(Ch(s, 1))
    THEN LET n == WordRunLen(s)
             word == Take(s, n)
         IN  (IF Lower(word) \in StopWords THEN "" ELSE word) \o SubStopWords(Drop(s, n))
    ELSE Ch(s, 1) \o SubStopWords(Drop(s, 1))

RECURSIVE SubDigits(_)
\* re.sub(r"\d+", "", s)
SubDigits(s) ==
    IF s = "" THEN ""
    ELSE (IF IsDigit(Ch(s, 1)) THEN "" ELSE Ch(s, 1)) \o SubDigits(Drop(s, 1))

RECURSIVE JsonEscape(_)
JsonEscape(s) ==
    IF s = "" THEN ""
    ELSE (CASE Ch(s, 1) = "\"" -> "\\\""
            [] Ch(s, 1) = "\\" -> "\\\\"
            [] Ch(s, 1) = "\n" -> "\\n"
            [] Ch(s, 1) = "\t" -> "\\t"
            [] Ch(s, 1) = "\r" -> "\\r"
            [] OTHER -> Ch(s, 1)) \o JsonEscape(Drop(s, 1))

\* json.dumps({"place": place, "days": days})
DumpPlaceDays(place, days) ==
    "{\"place\": \"" \o JsonEscape(place) \o "\", \"days\": " \o NatToStr(days) \o "}"

\* the function with "place = cleaned", the default place forgotten
extract_place_and_days_no_default(q) ==
    LET days_match == DaysMatch(Lower(q))
        days == IF days_match # None THEN StrToNat(days_match) ELSE DefaultDays
    IN  DumpPlaceDays(StripSet(Strip(SubDigits(SubStopWords(q))), {",", "."}), days)

\* q = None is a query that is no str: query.lower() raises inside the try and
\* the except branch returns the default record
extract_place_and_days(q) ==
    LET days_match == DaysMatch(Lower(q))
        days == IF days_match # None THEN StrToNat(days_match) ELSE DefaultDays
        cleaned == StripSet(Strip(SubDigits(SubStopWords(q))), {",", "."})
        place == IF cleaned # "" THEN cleaned ELSE DefaultPlace
    IN  IF q = None THEN DumpPlaceDays(DefaultPlace, DefaultDays)
        ELSE DumpPlaceDays(place, days)

-----------------------------------------------------------------------------
(* agent.extract_sources_from_steps                                        *)

needles == << "Source:", "Sources:", "DuckDuckGoSearch", "http", "https", "backpacker" >>
scrub   == << "### Sources Used:", "**Sources:**", "Sources:", "Source -", Bullet >>

RECURSIVE ScrubAll(_, _)
\* for s in scrub: line = line.replace(s, "")
ScrubAll(line, ss) ==
    IF ss = << >> THEN line ELSE ScrubAll(Replace(line, Head(ss), ""), Tail(ss))

HasNeedle(line) == \E i \in 1..Len(needles) : Contains(line, needles[i])

CleanLine(line) == Strip(StripSet(ScrubAll(line, scrub), {"-", Bullet, ":", " "}))

RECURSIVE FoundInLines(_)
\* the inner loop over observation.splitlines()
FoundInLines(raws) ==
    IF raws = << >> THEN << >>
    ELSE LET line == Strip(Head(raws))
             cleaned == CleanLine(line)
         IN  (IF HasNeedle(line) /\ cleaned # "" THEN << cleaned >> ELSE << >>)
             \o FoundInLines(Tail(raws))

RECURSIVE FoundInSteps(_)
\* the outer loop over intermediate_steps, each an (action, observation) pair
FoundInSteps(steps) ==
    IF steps = << >> THEN << >>
    ELSE (IF Head(steps)[2] = "" THEN << >> ELSE FoundInLines(SplitLines(Head(steps)[2])))
         \o FoundInSteps(Tail(steps))

RECURSIVE DedupeFrom(_, _, _)
DedupeFrom(found, seen, deduped) ==
    IF found = << >> THEN deduped
    ELSE IF Head(found) \notin seen
    THEN DedupeFrom(Tail(found), seen \cup {Head(found)}, Append(deduped, Head(found)))
    ELSE DedupeFrom(Tail(found), seen, deduped)

\* a de-duplication that forgets to look at seen
DedupeKeepsAll(found) == found

\* the seen / deduped loop
Dedupe(found) == DedupeFrom(found, {}, << >>)

extract_sources_from_steps(steps) == Join(Dedupe(FoundInSteps(steps)), "\n")

-----------------------------------------------------------------------------
(* tools.duckduckgo_with_sources                                           *)

DuckMaxResults == 3
SnippetChars == 200

BadLinkParts == {"bing.com/aclick", "doubleclick", "/aclk?", "adservice"}

LinkOk(link) ==
    /\ link # ""
    /\ StartsWith(link, "http")
    /\ ~\E b \in BadLinkParts : Contains(link, b)

ResultOk(res) == LinkOk(res.link)

RECURSIVE ResultLines(_, _)
ResultLines(rs, i) ==
    IF rs = << >> THEN << >>
    ELSE << NatToStr(i) \o ". " \o Head(rs).title
            \o "\n   Snippet: " \o Take(Head(rs).snippet, SnippetChars)
            \o "\n   Source: " \o Head(rs).link >>
         \o ResultLines(Tail(rs), i + 1)

\* the text built from what search_tool.run returned
duckduckgo_with_sources(results) ==
    LET kept == SelectSeq(results, ResultOk)
        top == SubSeq(kept, 1, IF Len(kept) < DuckMaxResults THEN Len(kept) ELSE DuckMaxResults)
        lines == ResultLines(top, 1)
    IN  "Search Results:\n"
        \o (IF lines # << >> THEN Join(lines, "\n\n") ELSE "No search results found.")

-----------------------------------------------------------------------------
(* agent.py: session store and executor cache                              *)

CacheMaxSize == 8

NoExecutor == [sid |-> None, memory |-> 0]

\* one history shared by every session: the key is ignored
get_session_history_shared(sh, hp, sid) ==
    IF "default" \in DOMAIN sh
    THEN [histories |-> sh, heap |-> hp, ref |-> sh["default"]]
    ELSE [histories |-> sh @@ ("default" :> Len(hp) + 1),
          heap      |-> Append(hp, << >>),
          ref       |-> Len(hp) + 1]

\* session_histories[session_id] on a defaultdict(ChatMessageHistory): a missing key
\* gets a new, empty history object
get_session_history(sh, hp, sid) ==
    IF sid \in DOMAIN sh
    THEN [histories |-> sh, heap |-> hp, ref |-> sh[sid]]
    ELSE [histories |-> sh @@ (sid :> Len(hp) + 1),
          heap      |-> Append(hp, << >>),
          ref       |-> Len(hp) + 1]

\* ConversationBufferMemory(chat_memory=get_session_history(session_id), ...)
get_memory(sh, hp, sid) == get_session_history(sh, hp, sid)

\* an executor built on a new history of its own, not on the stored one
make_agent_executor_fresh(sh, hp, sid) ==
    [histories |-> sh, heap |-> Append(hp, << >>),
     executor  |-> [sid |-> sid, memory |-> Len(hp) + 1]]

\* the executor keeps the memory object it was built with
make_agent_executor(sh, hp, sid) ==
    LET m == get_memory(sh, hp, sid)
    IN  [histories |-> m.histories, heap |-> m.heap,
         executor  |-> [sid |-> sid, memory |-> m.ref]]

\* @lru_cache(maxsize=8): a hit becomes the most recent entry, a miss builds the
\* executor, stores it and drops the least recent entry of a full cache
get_agent_executor(cache, sh, hp, sid) ==
    IF \E i \in 1..Len(cache) : cache[i].sid = sid
    THEN LET i == CHOOSE k \in 1..Len(cache) : cache[k].sid = sid
         IN  [cache     |-> SubSeq(cache, 1, i - 1) \o SubSeq(cache, i + 1, Len(cache))
                            \o << cache[i] >>,
              histories |-> sh, heap |-> hp, executor |-> cache[i]]
    ELSE LET b == make_agent_executor(sh, hp, sid)
             c == Append(cache, b.executor)
         IN  [cache     |-> IF Len(c) > CacheMaxSize THEN Tail(c) ELSE c,
              histories |-> b.histories, heap |-> b.heap, executor |-> b.executor]

\* history.add_messages: one turn (the user message and the answer) is appended
AddTurn(hp, ref, turn) == [hp EXCEPT ![ref] = Append(@, turn)]

\* a successful executor.invoke: the chain's memory saves the turn in the history
\* the executor was built with, and the runnable adds it to the history ref
SaveTurn(hp, exec, ref, turn) == AddTurn(AddTurn(hp, exec.memory, turn), ref, turn)

-----------------------------------------------------------------------------
(* agent.process_query                                                     *)

MaxQueries == 2

BudgetKeywords == {"trip", "budget", "plan", "cost", "itinerary", "expense"}
BudgetGuidance == "\n\nFor trip planning, use TripBudgetPlanner with input: "

MinAnswerLen == 10
NoAnswerText == "No answer generated."
Sentinel == "No answer"

FallbackLabel        == "DuckDuckGo Search (fallback)"
TimeoutFallbackLabel == "DuckDuckGo Search (timeout fallback)"
TimeoutFailedText    == "The agent timed out and the fallback also failed."
ErrorSourcesLabel    == "No sources due to error."

NoResult == [answer |-> None, sources |-> None]
NoLoop   == [kind |-> None, output |-> None, steps |-> << >>, answer |-> None,
             sources |-> None, error_msg |-> None]
NoSearch == [kind |-> None, text |-> None]

\* a keyword test that forgets to lower the query
HasBudgetKeywordCaseSensitive(q) == \E k \in BudgetKeywords : Contains(q, k)

HasBudgetKeyword(q) == \E k \in BudgetKeywords : Contains(Lower(q), k)

WeatherKeywords == {"weather", "forecast", "rain"}

HasWeatherKeyword(q) == \E k \in WeatherKeywords : Contains(Lower(q), k)

\* a weather keyword checked first: no guidance for a weather query
BuildInputWeatherFirst(q) ==
    IF HasWeatherKeyword(q) THEN q
    ELSE IF HasBudgetKeyword(q) THEN q \o BudgetGuidance \o extract_place_and_days(q)
    ELSE q

\* input_query: the query, with the guidance appended for a budget keyword
BuildInput(q) ==
    IF HasBudgetKeyword(q) THEN q \o BudgetGuidance \o extract_place_and_days(q) ELSE q

\* the length test made on the answer as it is, not on the trimmed answer
NeedsFallbackUntrimmed(answer) ==
    answer = "" \/ Len(answer) < MinAnswerLen \/ Contains(answer, Sentinel)

\* the test that sends an answer to the DuckDuckGo fallback
NeedsFallback(answer) ==
    answer = "" \/ Len(Strip(answer)) < MinAnswerLen \/ Contains(answer, Sentinel)

\* the test made on str(e) as it is, not on its lower-case form
IsLimitErrorCaseSensitive(msg) ==
    Contains(msg, "iteration limit") \/ Contains(msg, "time limit")

\* the test on str(e) that sends an error to the timeout fallback
IsLimitError(msg) ==
    Contains(Lower(msg), "iteration limit") \/ Contains(Lower(msg), "time limit")

OrElse(s, other) == IF s # "" THEN s ELSE other

\* a fast path: a weather query is answered by the forecast tool, without the loop
process_query_weather_first(q, sid, who) ==
    /\ pc = "idle"
    /\ LET g == get_agent_executor(agent_cache, session_histories, heap, sid)
       IN  /\ agent_cache' = g.cache
           /\ session_histories' = g.histories
           /\ heap' = g.heap
           /\ executor' = g.executor
    /\ input_query' = BuildInput(q)
    /\ IF HasWeatherKeyword(q)
       THEN /\ pc' = "done"
            /\ result' = [answer |-> "Forecast for " \o q, sources |-> "WeatherForecast"]
            /\ n_direct_tool' = 1
       ELSE /\ pc' = "invoke"
            /\ result' = NoResult
            /\ n_direct_tool' = 0
    /\ caller' = who
    /\ query' = q
    /\ session_id' = sid
    /\ n_queries' = n_queries + 1
    /\ loop' = NoLoop
    /\ search' = NoSearch
    /\ search_arg' = None
    /\ seen_history' = << >>
    /\ reply' = None
    /\ n_invoke' = 0
    /\ n_search' = 0
    /\ reset_result' = None
    /\ UNCHANGED << toolVars, sourceVars, slotVars, threadVars >>

\* entry up to the call of executor.invoke
process_query(q, sid, who) ==
    /\ pc = "idle"
    /\ LET g == get_agent_executor(agent_cache, session_histories, heap, sid)
       IN  /\ agent_cache' = g.cache
           /\ session_histories' = g.histories
           /\ heap' = g.heap
           /\ executor' = g.executor
    /\ input_query' = BuildInput(q)
    /\ pc' = "invoke"
    /\ caller' = who
    /\ query' = q
    /\ session_id' = sid
    /\ n_queries' = n_queries + 1
    /\ loop' = NoLoop
    /\ search' = NoSearch
    /\ search_arg' = None
    /\ seen_history' = << >>
    /\ result' = NoResult
    /\ reply' = None
    /\ n_invoke' = 0
    /\ n_search' = 0
    /\ n_direct_tool' = 0
    /\ reset_result' = None
    /\ UNCHANGED << toolVars, sourceVars, slotVars, threadVars >>

\* executor.invoke returns {"output": output, "intermediate_steps": steps}.  The
\* runnable looks the history of config's session_id up; the chain's memory supplies
\* chat_history and saves the turn, and the runnable adds the turn to the history
InvokeReturns(output, steps) ==
    /\ pc = "invoke"
    /\ LET h == get_session_history(session_histories, heap, session_id)
           turn == [sid |-> session_id, n |-> n_queries]
           answer == IF output # "" THEN output ELSE NoAnswerText
           sources == extract_sources_from_steps(steps)
       IN  /\ session_histories' = h.histories
           /\ seen_history' = h.heap[executor.memory]
           /\ heap' = SaveTurn(h.heap, executor, h.ref, turn)
           /\ loop' = [kind |-> "returned", output |-> output, steps |-> steps,
                       answer |-> answer, sources |-> sources, error_msg |-> None]
           /\ IF NeedsFallback(answer)
              THEN pc' = "fallback" /\ result' = result
              ELSE /\ pc' = "done"
                   /\ result' = [answer |-> Strip(answer),
                                 sources |-> OrElse(Strip(sources), EmDash)]
    /\ n_invoke' = n_invoke + 1
    /\ UNCHANGED << caller, query, session_id, executor, input_query, search,
                    search_arg, reply, n_search, n_direct_tool, agent_cache,
                    n_queries, reset_result, toolVars, sourceVars, slotVars, threadVars >>

\* a handler that invokes the loop once more after a limit error
InvokeRaisesRetries(msg) ==
    /\ pc = "invoke"
    /\ loop' = [NoLoop EXCEPT !.kind = "raised", !.error_msg = msg]
    /\ IF IsLimitError(msg)
       THEN (IF n_invoke = 0 THEN pc' = "invoke" ELSE pc' = "timeout_fallback")
            /\ result' = result
       ELSE /\ pc' = "done"
            /\ result' = [answer |-> "Unexpected error: " \o msg,
                          sources |-> ErrorSourcesLabel]
    /\ n_invoke' = n_invoke + 1
    /\ UNCHANGED << caller, query, session_id, executor, input_query, search,
                    search_arg, reply, n_search, n_direct_tool, seen_history,
                    sessionVars, toolVars, sourceVars, slotVars, threadVars >>

\* executor.invoke raises an exception e with str(e) = msg: nothing is saved
InvokeRaises(msg) ==
    /\ pc = "invoke"
    /\ LET h == get_session_history(session_histories, heap, session_id)
       IN  /\ session_histories' = h.histories
           /\ heap' = h.heap
           /\ seen_history' = h.heap[executor.memory]
    /\ loop' = [NoLoop EXCEPT !.kind = "raised", !.error_msg = msg]
    /\ IF IsLimitError(msg)
       THEN pc' = "timeout_fallback" /\ result' = result
       ELSE /\ pc' = "done"
            /\ result' = [answer |-> "Unexpected error: " \o msg,
                          sources |-> ErrorSourcesLabel]
    /\ n_invoke' = n_invoke + 1
    /\ UNCHANGED << caller, query, session_id, executor, input_query, search,
                    search_arg, reply, n_search, n_direct_tool, agent_cache,
                    n_queries, reset_result, toolVars, sourceVars, slotVars, threadVars >>

\* duckduckgo_tool.run(query) returns, after an unsatisfactory answer
FallbackSearchReturns(results) ==
    /\ pc = "fallback"
    /\ search' = [kind |-> "returned", text |-> duckduckgo_with_sources(results)]
    /\ search_arg' = query
    /\ n_search' = n_search + 1
    /\ result' = [answer |-> search'.text, sources |-> FallbackLabel]
    /\ pc' = "done"
    /\ UNCHANGED << caller, query, session_id, executor, input_query, loop,
                    seen_history, reply, n_invoke, n_direct_tool, sessionVars,
                    toolVars, sourceVars, slotVars, threadVars >>

\* duckduckgo_tool.run(query) raises, after an unsatisfactory answer
FallbackSearchRaises ==
    /\ pc = "fallback"
    /\ search' = [kind |-> "raised", text |-> None]
    /\ search_arg' = query
    /\ n_search' = n_search + 1
    /\ result' = [answer |-> Strip(loop.answer),
                  sources |-> OrElse(Strip(loop.sources), "No sources")]
    /\ pc' = "done"
    /\ UNCHANGED << caller, query, session_id, executor, input_query, loop,
                    seen_history, reply, n_invoke, n_direct_tool, sessionVars,
                    toolVars, sourceVars, slotVars, threadVars >>

\* duckduckgo_tool.run(query) returns, after an iteration or time limit error
TimeoutSearchReturns(results) ==
    /\ pc = "timeout_fallback"
    /\ search' = [kind |-> "returned", text |-> duckduckgo_with_sources(results)]
    /\ search_arg' = query
    /\ n_search' = n_search + 1
    /\ result' = [answer |-> search'.text, sources |-> TimeoutFallbackLabel]
    /\ pc' = "done"
    /\ UNCHANGED << caller, query, session_id, executor, input_query, loop,
                    seen_history, reply, n_invoke, n_direct_tool, sessionVars,
                    toolVars, sourceVars, slotVars, threadVars >>

\* duckduckgo_tool.run(query) raises, after an iteration or time limit error
TimeoutSearchRaises ==
    /\ pc = "timeout_fallback"
    /\ search' = [kind |-> "raised", text |-> None]
    /\ search_arg' = query
    /\ n_search' = n_search + 1
    /\ result' = [answer |-> TimeoutFailedText, sources |-> EmDash]
    /\ pc' = "done"
    /\ UNCHANGED << caller, query, session_id, executor, input_query, loop,
                    seen_history, reply, n_invoke, n_direct_tool, sessionVars,
                    toolVars, sourceVars, slotVars, threadVars >>

\* process_query returns to a caller other than the chat UI
ProcessQueryReturn ==
    /\ pc = "done"
    /\ caller = "direct"
    /\ pc' = "idle"
    /\ UNCHANGED << caller, query, session_id, executor, input_query, loop,
                    seen_history, search, search_arg, result, reply, n_invoke,
                    n_search, n_direct_tool, sessionVars, toolVars, sourceVars, slotVars, threadVars >>

-----------------------------------------------------------------------------
(* app.py                                                                  *)

UiSession == "tas_session"
ClearedMessage == "Chat memory cleared!"

\* the names agent.py binds at module level
AgentModuleNames ==
    {"defaultdict", "lru_cache", "Dict", "Any", "List", "Tuple", "create_react_agent",
     "AgentExecutor", "ConversationBufferMemory", "ChatMessageHistory",
     "RunnableWithMessageHistory", "StrOutputParser", "json", "re", "logging",
     "agent_prompt", "duckduckgo_tool", "weather_tool", "WeatherForecast_tool",
     "trip_budget_tool", "rag_tool", "get_llm", "config", "logger", "tools", "llm",
     "output_parser", "session_histories", "get_session_history", "get_memory",
     "react_agent", "make_agent_executor", "get_agent_executor",
     "extract_sources_from_steps", "extract_place_and_days", "process_query"}

\* on_submit up to the return of process_query
on_submit(message) == process_query(message, UiSession, "on_submit")

\* on_submit from the return of process_query: the formatted reply
OnSubmitReturn ==
    /\ pc = "done"
    /\ caller = "on_submit"
    /\ reply' = "**Answer:** " \o result.answer
                \o (IF result.sources # "" THEN "\n\n**Sources:** " \o result.sources
                    ELSE "")
    /\ pc' = "idle"
    /\ UNCHANGED << caller, query, session_id, executor, input_query, loop,
                    seen_history, search, search_arg, result, n_invoke, n_search,
                    n_direct_tool, sessionVars, toolVars, sourceVars, slotVars, threadVars >>

\* clear_chat: "from agent import session_histories, session_memories" raises
\* ImportError unless agent.py binds both names; the deletions come after it
clear_chat ==
    /\ pc = "idle"
    /\ IF {"session_histories", "session_memories"} \subseteq AgentModuleNames
       THEN /\ session_histories' =
                   [k \in DOMAIN session_histories \ {UiSession} |-> session_histories[k]]
            /\ reset_result' = ClearedMessage
       ELSE /\ session_histories' = session_histories
            /\ reset_result' = "ImportError"
    /\ UNCHANGED << queryVars, heap, agent_cache, n_queries, toolVars, sourceVars, slotVars, threadVars >>

-----------------------------------------------------------------------------
(* tools.py and rag.py: the tool facade.  An external call is given by its  *)
(* outcome: [kind |-> "returned", ...] or [kind |-> "raised", e |-> text].  *)
(* Pictographs that open some output lines are left out of the texts;       *)
(* Ellipsis, Times and WarnSign stand for U+2026, U+00D7 and U+26A0.        *)

Ellipsis == "_"
Times    == "x"
WarnSign == "!"

NoToolCall == [tool |-> None, args |-> << >>, kind |-> None, text |-> None,
               external_failed |-> FALSE,
               geocode_names |-> << >>, forecast_calls |-> 0, days |-> 0,
               day_lines |-> << >>, prices |-> << >>, components |-> << >>,
               total |-> -1]

\* weather_current; api is the outcome of weather_api.run(query), now the clock text
weather_current(q, now, api) ==
    IF api.kind = "returned"
    THEN [NoToolCall EXCEPT
            !.tool = "WeatherTool", !.kind = "returned",
            !.text = "Current Weather for " \o q \o " (as of " \o now \o "):\n" \o api.text]
    ELSE [NoToolCall EXCEPT
            !.tool = "WeatherTool", !.kind = "returned", !.external_failed = TRUE,
            !.text = "Weather error for '" \o q \o "': " \o api.e]

WhiteSpace == {" ", "\t", "\n", "\r"}

\* whether position i of s is at a \b word boundary
WordBoundaryAt(s, i) ==
    LET before == i > 1 /\ IsWordChar(Ch(s, i - 1))
        after == i <= Len(s) /\ IsWordChar(Ch(s, i))
    IN  before # after

\* whether (\d+)\s*[- ]?\s*days?\b matches at the start of s; \d+ takes the run
DayCountPrefix(s) ==
    LET n == DigitRunLen(s)
        a == LStripSet(Drop(s, n), WhiteSpace)
        b == IF a # "" /\ Ch(a, 1) = "-" THEN LStripSet(Drop(a, 1), WhiteSpace) ELSE a
        w == WordRunLen(b)
    IN  n > 0 /\ Lower(Take(b, w)) \in {"day", "days"}

\* (?i)\bfor\s+(\d+)\s*[- ]?\s*days?\b at position i of s
ForDaysMatchAt(s, i) ==
    /\ WordBoundaryAt(s, i)
    /\ Lower(SubSeq(s, i, IF i + 2 < Len(s) THEN i + 2 ELSE Len(s))) = "for"
    /\ LET rest == Drop(s, i + 2)
       IN  rest # "" /\ Ch(rest, 1) \in WhiteSpace
           /\ DayCountPrefix(LStripSet(rest, WhiteSpace))

\* (?i)\b(\d+)\s*[- ]?\s*days?\b at position i of s
DaysOnlyMatchAt(s, i) ==
    WordBoundaryAt(s, i) /\ IsDigit(Ch(s, i)) /\ DayCountPrefix(Drop(s, i - 1))

\* the two searches for the day count: group(1) of the first that matches, else None
ForecastDaysMatch(s) ==
    LET for_at == {i \in 1..Len(s) : ForDaysMatchAt(s, i)}
        for_rest == LStripSet(Drop(s, Least(for_at) + 2), WhiteSpace)
        at == {i \in 1..Len(s) : DaysOnlyMatchAt(s, i)}
        rest == Drop(s, Least(at) - 1)
    IN  IF for_at # {} THEN Take(for_rest, DigitRunLen(for_rest))
        ELSE IF at # {} THEN Take(rest, DigitRunLen(rest))
        ELSE None

MinForecastDays == 1
MaxForecastDays == 7
DefaultForecastDays == 3

\* a clamp that forgets the lower end
ClampDaysUpperOnly(d) == IF d > MaxForecastDays THEN MaxForecastDays ELSE d

\* days = max(1, min(days, 7))
ClampDays(d) ==
    IF d > MaxForecastDays THEN MaxForecastDays
    ELSE IF d < MinForecastDays THEN MinForecastDays ELSE d

ForecastDays(q) ==
    LET m == ForecastDaysMatch(q)
    IN  ClampDays(IF m # None THEN StrToNat(m) ELSE DefaultForecastDays)

PlaceChars == {" ", "\t", "\n", "\r", ",", ".", "-"}
MaxPlaceTail == 80

IsLetter(c) == IndexIn(UpperLetters, c) > 0 \/ IndexIn(LowerLetters, c) > 0

\* the text after (?:for|in)\s+ at position i, when \b(?:for|in)\s+ matches there
PlaceClauseAt(s, i) ==
    LET w == IF Lower(SubSeq(s, i, IF i + 2 < Len(s) THEN i + 2 ELSE Len(s))) = "for" THEN 3
             ELSE IF Lower(SubSeq(s, i, IF i + 1 < Len(s) THEN i + 1 ELSE Len(s))) = "in" THEN 2
             ELSE 0
        rest == Drop(s, i - 1 + w)
    IN  IF WordBoundaryAt(s, i) /\ w > 0 /\ rest # "" /\ Ch(rest, 1) \in WhiteSpace
        THEN LStripSet(rest, WhiteSpace) ELSE None

\* whether [A-Za-z][A-Za-z\s,.\-]{1,80}$ matches the whole of t
IsPlaceText(t) ==
    /\ t # None
    /\ Len(t) >= 2 /\ Len(t) <= MaxPlaceTail + 1
    /\ IsLetter(Ch(t, 1))
    /\ \A j \in 2..Len(t) : IsLetter(Ch(t, j)) \/ Ch(t, j) \in PlaceChars

ForecastStopWords == {"forecast", "weather", "for", "in", "of", "the", "next", "day",
                      "days", "today", "tomorrow", "week"}

RECURSIVE BlankStopWords(_)
\* re.sub(r"(?i)\b(forecast|...|week)\b", " ", s)
BlankStopWords(s) ==
    IF s = "" THEN ""
    ELSE IF IsWordChar(Ch(s, 1))
    THEN LET n == WordRunLen(s)
             word == Take(s, n)
         IN  (IF Lower(word) \in ForecastStopWords THEN " " ELSE word)
             \o BlankStopWords(Drop(s, n))
    ELSE Ch(s, 1) \o BlankStopWords(Drop(s, 1))

RECURSIVE BlankDigitRuns(_)
\* re.sub(r"\d+", " ", s)
BlankDigitRuns(s) ==
    IF s = "" THEN ""
    ELSE IF IsDigit(Ch(s, 1)) THEN " " \o BlankDigitRuns(Drop(s, DigitRunLen(s)))
    ELSE Ch(s, 1) \o BlankDigitRuns(Drop(s, 1))

RECURSIVE SquashSpaces(_)
\* re.sub(r"\s{2,}", " ", s)
SquashSpaces(s) ==
    IF s = "" THEN ""
    ELSE IF Ch(s, 1) \in WhiteSpace /\ Len(s) >= 2 /\ Ch(s, 2) \in WhiteSpace
    THEN " " \o SquashSpaces(LStripSet(s, WhiteSpace))
    ELSE Ch(s, 1) \o SquashSpaces(Drop(s, 1))

LeadingJunk == {"-", Bullet, "*", " ", "\t", "\n", "\r", ",", ".", ";", ":"}
DefaultLocation == "Hobart, AU"

ForecastLocation(q) ==
    LET at == {i \in 1..Len(q) : IsPlaceText(PlaceClauseAt(q, i))}
        raw == IF at # {}
               THEN Strip(PlaceClauseAt(q, Least(at)))
               ELSE LET tmp == Strip(SquashSpaces(LStripSet(
                                   BlankDigitRuns(BlankStopWords(q)), LeadingJunk)))
                    IN  OrElse(tmp, DefaultLocation)
    IN  StripSet(LStripSet(raw, LeadingJunk), {",", ".", " "})

\* re.search(r"(?i)\bAU\b|Australia", location)
NamesCountry(location) ==
    \/ Contains(Lower(location), "australia")
    \/ \E i \in 1..Len(location) :
          /\ WordBoundaryAt(location, i)
          /\ WordRunLen(Drop(location, i - 1)) = 2
          /\ Lower(SubSeq(location, i, i + 1)) = "au"

\* a test that takes any answer of the geocoder for a found place
HasResultsAnyAnswer(geo) == geo.kind = "returned"

HasResults(geo) == geo.kind = "returned" /\ geo.results > 0

\* _openmeteo_forecast_days.  geo1 and geo2 are the outcomes of the two geocoding
\* requests, [kind |-> "returned", results |-> number of results]; fc is the outcome
\* of the forecast request, [kind |-> "returned", times |-> number of dates,
\* values |-> number of entries of the shortest of the three value arrays,
\* null_at |-> index of an entry with a null value, -1 when there is none]
openmeteo_forecast_days(text_in, geo1, geo2, fc) ==
    LET q == Strip(text_in)
        days == ForecastDays(q)
        location == ForecastLocation(q)
        retry == geo1.kind = "returned" /\ ~HasResults(geo1) /\ ~NamesCountry(location)
        names == IF retry THEN << location, location \o ", AU" >> ELSE << location >>
        geo == IF retry THEN geo2 ELSE geo1
        failed(e) == [NoToolCall EXCEPT
                        !.tool = "WeatherForecast", !.kind = "returned",
                        !.external_failed = TRUE, !.days = days,
                        !.text = "Forecast error for '" \o text_in \o "': " \o e]
    IN  IF geo1.kind = "raised" THEN [failed(geo1.e) EXCEPT !.geocode_names = names]
        ELSE IF geo.kind = "raised" THEN [failed(geo.e) EXCEPT !.geocode_names = names]
        ELSE IF ~HasResults(geo)
        THEN [NoToolCall EXCEPT
                !.tool = "WeatherForecast", !.kind = "returned", !.days = days,
                !.geocode_names = names,
                !.text = "Forecast error: couldn't geocode '" \o location
                         \o "'. Try 'Hobart, AU'."]
        ELSE IF fc.kind = "raised"
        THEN [failed(fc.e) EXCEPT !.geocode_names = names, !.forecast_calls = 1]
        ELSE IF fc.times = 0 \/ fc.times < days + 1
        THEN [NoToolCall EXCEPT
                !.tool = "WeatherForecast", !.kind = "returned", !.days = days,
                !.geocode_names = names, !.forecast_calls = 1,
                !.text = "Forecast error: insufficient data for " \o NatToStr(days)
                         \o " days."]
        ELSE IF fc.values < days + 1
        THEN [failed("list index out of range") EXCEPT
                !.geocode_names = names, !.forecast_calls = 1, !.external_failed = FALSE]
        ELSE IF fc.null_at \in 1..days
        THEN [failed("unsupported format string passed to NoneType.__format__") EXCEPT
                !.geocode_names = names, !.forecast_calls = 1, !.external_failed = FALSE]
        ELSE LET line(i) == Bullet \o " day " \o NatToStr(i)
                 lines == [i \in 1..days |-> line(i)]
             IN  [NoToolCall EXCEPT
                    !.tool = "WeatherForecast", !.kind = "returned", !.days = days,
                    !.geocode_names = names, !.forecast_calls = 1,
                    !.day_lines = [i \in 1..days |-> i],
                    !.text = Join(<< "**" \o NatToStr(days) \o "-Day Forecast for "
                                     \o location \o "**" >> \o lines, "\n")]

\* rag_with_sources; chain is the outcome of retrieval_chain.invoke: nothing in
\* the function catches what it raises
rag_with_sources(q, chain) ==
    IF chain.kind = "returned"
    THEN [NoToolCall EXCEPT
            !.tool = "RAGTool", !.kind = "returned",
            !.text = "**Answer:** " \o chain.answer \o "\n\n"]
    ELSE [NoToolCall EXCEPT
            !.tool = "RAGTool", !.kind = "raised", !.external_failed = TRUE,
            !.text = chain.e]

\* rag_query; chain is the outcome of temp_chain.invoke
rag_query(question, chain) ==
    IF chain.kind = "returned" THEN chain.answer
    ELSE WarnSign \o " RAG query error: " \o chain.e

-----------------------------------------------------------------------------
(* tools.trip_budget_planner                                               *)

MaxPriceDigits == 4

\* _first_price returning None
NoPrice == -1
ShortenMaxLines == 3
ShortenMaxChars == 220

RECURSIVE FirstDigitAt(_)
\* index of the first digit of s, 0 if it has none
FirstDigitAt(s) ==
    IF s = "" THEN 0
    ELSE IF IsDigit(Ch(s, 1)) THEN 1
    ELSE LET r == FirstDigitAt(Drop(s, 1)) IN IF r = 0 THEN 0 ELSE r + 1

\* _first_price: _PRICE_RE.search finds the first digit and takes up to four digits
first_price(text) ==
    LET i == FirstDigitAt(text)
        run == Drop(text, i - 1)
        n == DigitRunLen(run)
    IN  IF i = 0 THEN NoPrice
        ELSE StrToNat(Take(run, IF n < MaxPriceDigits THEN n ELSE MaxPriceDigits))

\* _shorten
shorten(text) ==
    IF text = "" THEN "No data found."
    ELSE LET parts == SplitOn(Strip(text), "\n")
             brief == Join(SubSeq(parts, 1, IF Len(parts) < ShortenMaxLines
                                            THEN Len(parts) ELSE ShortenMaxLines), " ")
         IN  IF Len(brief) > ShortenMaxChars
             THEN Take(brief, ShortenMaxChars) \o Ellipsis ELSE brief

RECURSIVE JsonStringEnd(_, _)
\* index of the quote that closes the JSON string whose content starts at s[i]
JsonStringEnd(s, i) ==
    IF i > Len(s) THEN 0
    ELSE IF Ch(s, i) = "\"" THEN i
    ELSE IF Ch(s, i) = "\\" THEN JsonStringEnd(s, i + 2)
    ELSE JsonStringEnd(s, i + 1)

RECURSIVE JsonUnescape(_)
JsonUnescape(s) ==
    IF s = "" THEN ""
    ELSE IF Ch(s, 1) = "\\" /\ Len(s) >= 2
    THEN (CASE Ch(s, 2) = "n" -> "\n"
            [] Ch(s, 2) = "t" -> "\t"
            [] Ch(s, 2) = "r" -> "\r"
            [] OTHER -> Ch(s, 2)) \o JsonUnescape(Drop(s, 2))
    ELSE Ch(s, 1) \o JsonUnescape(Drop(s, 1))

IsDigitRun(t) == t # "" /\ DigitRunLen(t) = Len(t)

\* a JSON value: [type |-> "int" | "float" | "str" | "null", ...], None if malformed
JsonValue(t) ==
    IF IsDigitRun(t) THEN [type |-> "int", neg |-> FALSE, n |-> StrToNat(t), s |-> ""]
    ELSE IF Len(t) >= 2 /\ Ch(t, 1) = "-" /\ IsDigitRun(Drop(t, 1))
    THEN [type |-> "int", neg |-> TRUE, n |-> StrToNat(Drop(t, 1)), s |-> ""]
    ELSE IF t = "null" THEN [type |-> "null", neg |-> FALSE, n |-> 0, s |-> ""]
    ELSE IF Len(t) >= 2 /\ Ch(t, 1) = "\"" /\ JsonStringEnd(t, 2) = Len(t)
    THEN [type |-> "str", neg |-> FALSE, n |-> 0, s |-> JsonUnescape(SubSeq(t, 2, Len(t) - 1))]
    ELSE IF /\ DigitRunLen(t) > 0
            /\ Len(t) > DigitRunLen(t) + 1
            /\ Ch(t, DigitRunLen(t) + 1) = "."
            /\ IsDigitRun(Drop(t, DigitRunLen(t) + 1))
    THEN [type |-> "float", neg |-> FALSE, n |-> StrToNat(Take(t, DigitRunLen(t))), s |-> ""]
    ELSE [type |-> None, neg |-> FALSE, n |-> 0, s |-> ""]

PlaceKey == "{\"place\": \""
DaysKey == ", \"days\": "

\* json.loads on the texts of the form {"place": "...", "days": value}, the form
\* json.dumps writes the record in; any other text is a JSONDecodeError
LoadPlaceDays(s) ==
    LET e == JsonStringEnd(s, Len(PlaceKey) + 1)
        rest == Drop(s, e)
        value == JsonValue(SubSeq(rest, Len(DaysKey) + 1, Len(rest) - 1))
    IN  IF /\ StartsWith(s, PlaceKey)
           /\ e > 0
           /\ StartsWith(rest, DaysKey)
           /\ Ch(s, Len(s)) = "}"
           /\ value.type # None
        THEN [ok |-> TRUE, place |-> JsonUnescape(SubSeq(s, Len(PlaceKey) + 1, e - 1)),
              days |-> value]
        ELSE [ok |-> FALSE, place |-> "", days |-> JsonValue("null")]

\* a normalisation that maps every day count that is not a positive integer to 0
NormalizeDaysIntegersOnly(v) == IF v.type = "int" /\ ~v.neg THEN v.n ELSE 0

\* days = int(days_raw), 0 when negative or when int() raises
NormalizeDays(v) ==
    CASE v.type = "int" -> IF v.neg THEN 0 ELSE v.n
      [] v.type = "float" -> v.n
      [] v.type = "str" ->
             LET t == Strip(v.s) IN IF IsDigitRun(t) THEN StrToNat(t) ELSE 0
      [] OTHER -> 0

BudgetQuestions(place) ==
    << "List accommodation or camping options in " \o place \o " with any AUD prices.",
       "List cheap food or cafes in " \o place \o " with any AUD prices.",
       "List vehicle or car rental options in " \o place \o " with any AUD prices." >>

ComponentLabels == << "Accommodation", "Food", "Vehicle Rental" >>

RECURSIVE SumUnits(_)
\* a total that adds the unit prices and forgets the day count
SumUnits(cs) == IF cs = << >> THEN 0 ELSE Head(cs).unit + SumUnits(Tail(cs))

RECURSIVE SumSubtotals(_)
SumSubtotals(cs) == IF cs = << >> THEN 0 ELSE Head(cs).unit * Head(cs).n_days + SumSubtotals(Tail(cs))

RECURSIVE ComponentLines(_)
ComponentLines(cs) ==
    IF cs = << >> THEN << >>
    ELSE << Bullet \o " " \o Head(cs).label \o ": $" \o NatToStr(Head(cs).unit) \o " "
            \o Times \o " " \o NatToStr(Head(cs).n_days) \o " = $"
            \o NatToStr(Head(cs).unit * Head(cs).n_days) >> \o ComponentLines(Tail(cs))

NoTotalLine == Bullet \o " No explicit per-day prices detected; unable to compute a total."

\* trip_budget_planner; chains are the outcomes of the three temp_chain.invoke calls
trip_budget_planner(json_input, chains) ==
    LET payload == LoadPlaceDays(json_input)
        place == OrElse(Strip(payload.place), DefaultPlace)
        days == NormalizeDays(payload.days)
        texts == [i \in 1..3 |-> rag_query(BudgetQuestions(place)[i], chains[i])]
        prices == [i \in 1..3 |-> first_price(texts[i])]
        priced(i) == IF prices[i] # NoPrice /\ days # 0
                     THEN << [label |-> ComponentLabels[i], unit |-> prices[i],
                              n_days |-> days] >>
                     ELSE << >>
        components == priced(1) \o priced(2) \o priced(3)
        total == SumSubtotals(components)
        lines == << "**Trip Budget & Planner for " \o place
                    \o (IF days # 0 THEN " (" \o NatToStr(days) \o " days)" ELSE "") \o "**",
                    "",
                    "**Accommodation / Camping:** " \o shorten(texts[1]),
                    "**Food Options:** " \o shorten(texts[2]),
                    "**Vehicle Rentals:** " \o shorten(texts[3]),
                    "",
                    "**Estimated Cost Breakdown (AUD, only where explicit prices were found):**" >>
                 \o ComponentLines(components)
                 \o (IF components # << >>
                     THEN << "----------------------------------\n**Estimated Total: $"
                             \o NatToStr(total) \o " AUD**" >>
                     ELSE << NoTotalLine >>)
    IN  IF ~payload.ok
        THEN [NoToolCall EXCEPT
                !.tool = "TripBudgetPlanner", !.kind = "returned",
                !.text = "TripBudgetPlanner error: invalid JSON"]
        ELSE [NoToolCall EXCEPT
                !.tool = "TripBudgetPlanner", !.kind = "returned", !.days = days,
                !.prices = prices,
                !.external_failed = \E i \in 1..3 : chains[i].kind = "raised",
                !.components = components,
                !.total = IF components # << >> THEN total ELSE NoPrice,
                !.text = Join(lines, "\n")]

-----------------------------------------------------------------------------
(* The chat: queries through on_submit, and clear_chat                     *)

Queries ==
    {"Will it rain in Hobart?", "Weather forecast for my 3 day trip",
     "Plan a 5 day trip to Hobart", "Best hikes near Cradle Mountain",
     "Native PLANTS near Hobart"}

LoopOutputs ==
    {"", "   ", "ok", "  Hobart.  ", "Nine char", "Ten chars!",
     "No answer found in the guides.", "Hobart is lovely in summer."}

StepLists ==
    { << >>,
      << << "DuckDuckGoSearch",
            "Search Results:\n1. Walks\n   Snippet: day walks\n   Source: http://parks.tas.gov.au" >> >> }

ErrorMessages ==
    {"Agent stopped due to iteration limit or time limit.", "Time Limit exceeded",
     "connection reset by peer"}

SearchResults ==
    { << >>,
      << [title |-> "Parks", snippet |-> "Walks and passes", link |-> "https://parks.tas.gov.au"] >>,
      << [title |-> "Ad", snippet |-> "", link |-> "https://bing.com/aclick?x"] >> }

InitQuery ==
    /\ pc = "idle"
    /\ caller = None
    /\ query = None
    /\ session_id = None
    /\ executor = NoExecutor
    /\ input_query = None
    /\ loop = NoLoop
    /\ seen_history = << >>
    /\ search = NoSearch
    /\ search_arg = None
    /\ result = NoResult
    /\ reply = None
    /\ n_invoke = 0
    /\ n_search = 0
    /\ n_direct_tool = 0

InitSessions ==
    /\ session_histories = << >>
    /\ heap = << >>
    /\ agent_cache = << >>
    /\ n_queries = 0
    /\ reset_result = None

InitTools == tool_call = NoToolCall

InitSources == src_steps = << >> /\ src_out = None

InitSlots == slot_query = None /\ slot_record = None

InitThreads == threads = << >>

Init == InitQuery /\ InitSessions /\ InitTools /\ InitSources /\ InitSlots /\ InitThreads

Next ==
    \/ (n_queries < MaxQueries /\ \E q \in Queries : on_submit(q))
    \/ \E output \in LoopOutputs, steps \in StepLists : InvokeReturns(output, steps)
    \/ \E msg \in ErrorMessages : InvokeRaises(msg)
    \/ \E results \in SearchResults : FallbackSearchReturns(results)
    \/ FallbackSearchRaises
    \/ \E results \in SearchResults : TimeoutSearchReturns(results)
    \/ TimeoutSearchRaises
    \/ OnSubmitReturn
    \/ clear_chat

Spec == Init /\ [][Next]_vars

-----------------------------------------------------------------------------
(* Claims about process_query, checked under Spec                          *)

BothKeywords(q) == q # None /\ HasWeatherKeyword(q) /\ HasBudgetKeyword(q)

\* C1 as stated: a query with a weather keyword is answered by a direct call of the
\* weather / forecast tool and the reasoning loop is never invoked for it.
C1_WeatherSkipsLoop ==
    (pc = "done" /\ HasWeatherKeyword(query)) => (n_invoke = 0 /\ n_direct_tool >= 1)

\* C1 amended: process_query has no fast path; every query, a weather query
\* included, reaches its result through exactly one invocation of the reasoning
\* loop, and process_query itself never calls the weather or forecast tool.
C1_EveryQueryUsesLoop ==
    /\ pc = "invoke" => (n_invoke = 0 /\ n_direct_tool = 0)
    /\ pc \in {"fallback", "timeout_fallback", "done"} => (n_invoke = 1 /\ n_direct_tool = 0)

C1_Witness ==
    pc = "done" /\ HasWeatherKeyword(query) /\ n_invoke = 1 /\ loop.kind = "returned"

\* C2 as stated: a query with a weather keyword and a budget keyword is handled as
\* a weather query; no budget instruction is applied to it.
C2_WeatherWins ==
    (pc = "done" /\ BothKeywords(query))
        => (n_direct_tool >= 1 /\ n_invoke = 0 /\ ~Contains(input_query, BudgetGuidance))

\* C2 amended: weather keywords play no part; a query with a weather keyword and a
\* budget keyword gets the budget instruction (the query, the guidance, the record
\* of extract_place_and_days) like any budget query and goes to the reasoning loop.
C2_BudgetInstructionApplied ==
    BothKeywords(query)
        => /\ input_query = query \o BudgetGuidance \o extract_place_and_days(query)
           /\ n_direct_tool = 0
           /\ pc = "done" => n_invoke = 1

C2_Witness == pc = "done" /\ BothKeywords(query) /\ Contains(input_query, BudgetGuidance)

\* the three tests of C3, with the length taken of the answer as returned
UnsatisfactoryRaw(out) == out = "" \/ Len(out) < 10 \/ Contains(out, "No answer")

\* the three tests of C3, with the length taken of the trimmed answer
UnsatisfactoryTrimmed(out) == out = "" \/ Len(Strip(out)) < 10 \/ Contains(out, "No answer")

\* C3 as stated: when the loop returns an answer that is empty, shorter than 10
\* characters or holds the sentinel, the web search is called with the query and its
\* output is the final answer, with the fallback label as sources; an answer of 10
\* or more characters without the sentinel is never replaced.
C3_FallbackAlwaysReplaces ==
    (pc = "done" /\ loop.kind = "returned")
        => IF UnsatisfactoryRaw(loop.output)
           THEN /\ n_search = 1
                /\ search_arg = query
                /\ result = [answer |-> search.text, sources |-> FallbackLabel]
           ELSE /\ n_search = 0
                /\ result.sources # FallbackLabel

\* C3 amended: the length is that of the answer trimmed of surrounding whitespace.
\* An unsatisfactory answer makes process_query call the web search with the query:
\* if the search returns, its output is the final answer with the fallback label;
\* if the search raises, the loop's trimmed answer ("No answer generated." for an
\* empty one) is returned with sources other than the fallback label.  An answer of
\* trimmed length 10 or more without the sentinel is returned trimmed, no search.
C3_FallbackPolicy ==
    (pc = "done" /\ loop.kind = "returned")
        => IF UnsatisfactoryTrimmed(loop.output)
           THEN /\ n_search = 1
                /\ search_arg = query
                /\ search.kind = "returned"
                     => result = [answer |-> search.text, sources |-> FallbackLabel]
                /\ search.kind = "raised"
                     => /\ result.answer = Strip(IF loop.output = "" THEN NoAnswerText
                                                 ELSE loop.output)
                        /\ result.sources # FallbackLabel
           ELSE /\ n_search = 0
                /\ result.answer = Strip(loop.output)
                /\ result.sources # FallbackLabel

C3_Witness ==
    /\ pc = "done" /\ loop.kind = "returned" /\ loop.output = ""
    /\ n_search = 1 /\ search.kind = "returned"
    /\ result = [answer |-> search.text, sources |-> FallbackLabel]

LimitMessage(msg) ==
    Contains(Lower(msg), "iteration limit") \/ Contains(Lower(msg), "time limit")

\* C4 as stated: a loop error naming an iteration or time limit leads to the web
\* search and a result labelled with the timeout fallback marker; any other error
\* leads to no web search and a generic error answer with the error sources label.
C4_LimitErrorTimeoutLabel ==
    (pc = "done" /\ loop.kind = "raised")
        => IF LimitMessage(loop.error_msg)
           THEN n_search = 1 /\ result.sources = TimeoutFallbackLabel
           ELSE /\ n_search = 0
                /\ result = [answer |-> "Unexpected error: " \o loop.error_msg,
                             sources |-> ErrorSourcesLabel]

\* C4 amended: on a limit error the web search is called with the query; if it
\* returns, its output is the answer, labelled with the timeout fallback marker; if
\* it raises, the answer is the fixed "timed out and the fallback also failed" text
\* with the dash as sources.  Any other error: no web search, a generic error answer.
C4_ErrorPolicy ==
    (pc = "done" /\ loop.kind = "raised")
        => IF LimitMessage(loop.error_msg)
           THEN /\ n_search = 1
                /\ search_arg = query
                /\ search.kind = "returned"
                     => result = [answer |-> search.text, sources |-> TimeoutFallbackLabel]
                /\ search.kind = "raised"
                     => result = [answer |-> TimeoutFailedText, sources |-> EmDash]
           ELSE /\ n_search = 0
                /\ result = [answer |-> "Unexpected error: " \o loop.error_msg,
                             sources |-> ErrorSourcesLabel]

C4_Witness ==
    /\ pc = "done" /\ loop.kind = "raised" /\ LimitMessage(loop.error_msg)
    /\ n_search = 1 /\ result.sources = TimeoutFallbackLabel

\* C5: whatever fails (the loop, the web search, the fallback search itself),
\* process_query returns a result whose answer text is not blank, and on_submit
\* returns a reply built from it.
C5_AnswerNeverBlank ==
    /\ pc = "done" => (result.answer # None /\ Strip(result.answer) # "")
    /\ (pc = "idle" /\ reply # None) => Strip(result.answer) # ""

\* how far a call of process_query has come
Stage ==
    CASE pc = "invoke" -> 1
      [] pc \in {"fallback", "timeout_fallback"} -> 2
      [] pc = "done" -> 3
      [] OTHER -> 0

C16_AtMostOnce ==
    /\ n_invoke <= 1
    /\ n_search <= 1
    /\ n_search = 1 => (n_invoke = 1 /\ loop.kind \in {"returned", "raised"})
    /\ pc \in {"fallback", "timeout_fallback"} => (n_invoke = 1 /\ n_search = 0)
    /\ pc = "done" => (n_invoke = 1 /\ result # NoResult)
    /\ pc \in {"invoke", "fallback", "timeout_fallback"} => result = NoResult

C16_Forward ==
    /\ (pc # "idle" /\ pc # "done") => (pc'  # "idle" /\ Stage' > Stage)
    /\ pc = "done" => (pc' = "idle" /\ result' = result)
    /\ (pc = "timeout_fallback") => pc' = "done"

\* C16: within one call of process_query the reasoning loop is invoked at most
\* once, the web search at most once and only after the loop has returned or
\* failed; the call only moves forward (invoke, then at most one fallback, then
\* the result), nothing is retried after a limit error, and the call ends with one
\* result that is not changed afterwards.
C16_LinearSingleAttempt == []C16_AtMostOnce /\ [][C16_Forward]_vars

C16_Witness ==
    /\ pc = "done" /\ loop.kind = "raised" /\ LimitMessage(loop.error_msg)
    /\ n_invoke = 1 /\ n_search = 1 /\ search.kind = "raised"

\* the budget keywords, as the claims list them
IsBudgetQuery(q) ==
    \E k \in {"trip", "budget", "plan", "cost", "itinerary", "expense"} :
        Contains(Lower(q), k)

\* C19: the text given to the reasoning loop is the raw query followed by the
\* budget instruction block exactly when the query holds a budget keyword (any
\* case, anywhere in the text), and the raw query unchanged otherwise; the web
\* search, when called, is given the raw query.
C19_AugmentedOnlyForTheLoop ==
    /\ pc # "idle"
          => /\ IsBudgetQuery(query)
                  => /\ StartsWith(input_query, query \o "\n\nFor trip planning, use ")
                     /\ input_query # query
             /\ ~IsBudgetQuery(query) => input_query = query
    /\ n_search >= 1 => search_arg = query

C19_Witness ==
    /\ pc = "done" /\ n_search = 1
    /\ IsBudgetQuery(query) /\ ~Contains(query, "plan") /\ ~Contains(query, "trip")
    /\ input_query # query /\ search_arg = query

-----------------------------------------------------------------------------
(* The session store: process_query called for several session keys.  A    *)
(* run starts from the empty store, or from the store as it is after one    *)
(* answered query on each of the first CacheMaxSize keys (a full cache).    *)

NumSessions == 9
MaxSessQueries == 2

SessionKey(i) == IF i = 1 THEN UiSession ELSE "user" \o NatToStr(i)
SessionKeys == {SessionKey(i) : i \in 1..NumSessions}

SessQuery == "Hi"
SessOutput == "Hobart is lovely in summer."
SessError == "connection reset by peer"

RECURSIVE StoreAfter(_)
\* the store after one answered query on each of the first k keys, in key order
StoreAfter(k) ==
    IF k = 0 THEN [cache |-> << >>, histories |-> << >>, heap |-> << >>]
    ELSE LET w == StoreAfter(k - 1)
             sid == SessionKey(k)
             g == get_agent_executor(w.cache, w.histories, w.heap, sid)
             h == get_session_history(g.histories, g.heap, sid)
         IN  [cache |-> g.cache, histories |-> h.histories,
              heap |-> SaveTurn(h.heap, g.executor, h.ref, [sid |-> sid, n |-> 0])]

SessInit ==
    /\ InitQuery /\ InitTools /\ InitSources /\ InitSlots /\ InitThreads
    /\ \E k \in {0, CacheMaxSize} :
          /\ agent_cache = StoreAfter(k).cache
          /\ session_histories = StoreAfter(k).histories
          /\ heap = StoreAfter(k).heap
    /\ n_queries = 0
    /\ reset_result = None

SessNext ==
    \/ (n_queries < MaxSessQueries
          /\ \E sid \in SessionKeys : process_query(SessQuery, sid, "direct"))
    \/ InvokeReturns(SessOutput, << >>)
    \/ InvokeRaises(SessError)
    \/ ProcessQueryReturn
    \/ clear_chat

SessSpec == SessInit /\ [][SessNext]_vars

\* the stored turns of session key k
History(k) == heap[session_histories[k]]
Turns(h) == {h[i] : i \in 1..Len(h)}
IsPrefix(a, b) == Len(a) <= Len(b) /\ SubSeq(b, 1, Len(a)) = a
Cached(k) == \E i \in 1..Len(agent_cache) : agent_cache[i].sid = k

C6_OwnTurnsOnly ==
    /\ \A k \in DOMAIN session_histories : \A t \in Turns(History(k)) : t.sid = k
    /\ \A t \in Turns(seen_history) : t.sid = session_id

C6_ResetStep ==
    (reset_result' # None /\ reset_result = None)
        => \A k \in DOMAIN session_histories \ {UiSession} :
              k \in DOMAIN session_histories' /\ History(k)' = History(k)

\* C6: the history given to the reasoning loop for a query on key A, and the
\* history stored under A, hold only turns appended by queries on A; a reset (of
\* the chat's key) leaves the stored history of every other key unchanged.
C6_SessionIsolation == []C6_OwnTurnsOnly /\ [][C6_ResetStep]_vars

C6_Witness ==
    /\ reset_result # None
    /\ seen_history # << >>
    /\ session_id # UiSession
    /\ \E k \in DOMAIN session_histories : k # session_id /\ History(k) # << >>

\* C7: clear_chat returns the confirmation message, and afterwards neither the
\* stored history nor the cached executor of the chat's session exists.
C7_ResetClears ==
    reset_result # None
        => /\ reset_result = ClearedMessage
           /\ UiSession \notin DOMAIN session_histories
           /\ ~Cached(UiSession)

C8_Visible ==
    /\ pc # "idle" => session_id \in DOMAIN session_histories
    /\ loop.kind # None
         => /\ IsPrefix(seen_history, History(session_id))
            /\ Turns(seen_history) = {t \in Turns(History(session_id)) : t.n # n_queries}

C8_Kept ==
    \A k \in DOMAIN session_histories :
        (k = UiSession /\ reset_result' = ClearedMessage)
            \/ (k \in DOMAIN session_histories' /\ IsPrefix(History(k), History(k)'))

C8_Lazy ==
    DOMAIN session_histories' \subseteq DOMAIN session_histories \cup {session_id'}

\* C8: a session's history is created by the first query on its key and is never
\* dropped or shortened afterwards (short of a reset of that key): a query on key S
\* is given every turn stored for S so far, whatever happens on other keys and
\* however many keys there are, more than the CacheMaxSize executors cached included.
C8_SessionNeverExpires == []C8_Visible /\ [][C8_Kept /\ C8_Lazy]_vars

C8_Witness ==
    /\ Cardinality(DOMAIN session_histories) > CacheMaxSize
    /\ n_queries = 2
    /\ session_id = SessionKey(1)
    /\ loop.kind = "returned"
    /\ seen_history # << >>
    /\ ~Cached(SessionKey(2))

-----------------------------------------------------------------------------
(* The tool facade: each capability called with every outcome of its        *)
(* external collaborators                                                   *)

Now == "Sunday, 01 November 2026, 10:00 AM"

Raised(e) == [kind |-> "raised", e |-> e]

WeatherQueries == {"Hobart, AU", "Launceston"}
WeatherOutcomes ==
    {[kind |-> "returned", text |-> "In Hobart, AU, the current weather is: clear sky"],
     Raised("NotFoundError: Unable to find the resource")}

ForecastQueries ==
    {"forecast for Hobart", "5-day forecast in Launceston",
     "weather for 9 days in Strahan, AU", "Cradle Mountain 2 days",
     "forecast for 0 days in Hobart"}
MaxDaily == 8
GeoOutcomes ==
    {[kind |-> "returned", results |-> 0], [kind |-> "returned", results |-> 1],
     [kind |-> "raised", results |-> 0, e |-> "ConnectTimeout"]}
DailySizes == {0, 3, MaxDaily}
ForecastOutcomes ==
    {[kind |-> "returned", times |-> t, values |-> v, null_at |-> -1, e |-> ""] :
         t \in DailySizes, v \in DailySizes}
    \cup {[kind |-> "returned", times |-> MaxDaily, values |-> MaxDaily, null_at |-> 1,
            e |-> ""],
           [kind |-> "raised", times |-> 0, values |-> 0, null_at |-> -1,
            e |-> "ReadTimeout"]}

RagQueries == {"What are the camping fees at Freycinet?"}
ChainOutcomes ==
    {[kind |-> "returned", answer |-> "Hostel beds from $50 per night.", e |-> ""],
     [kind |-> "returned", answer |-> "Pub meals are about 18 AUD a day.", e |-> ""],
     [kind |-> "returned", answer |-> "No prices are listed in the guide.", e |-> ""],
     [kind |-> "raised", answer |-> "", e |-> "ResourceExhausted: 429 quota exceeded"]}

BudgetInputs ==
    {extract_place_and_days("Plan a 4 day trip to Hobart"),
     "{\"place\": \"Hobart\", \"days\": 0}",
     "{\"place\": \"\", \"days\": -2}",
     "{\"place\": \"Hobart\", \"days\": 2.5}",
     "{\"place\": \"Hobart\", \"days\": null}",
     "Hobart, 3 days"}

WeatherTool ==
    /\ tool_call.tool = None
    /\ \E q \in WeatherQueries, api \in WeatherOutcomes :
          tool_call' = [weather_current(q, Now, api) EXCEPT !.args = << q, api >>]
    /\ UNCHANGED << queryVars, sessionVars, sourceVars, slotVars, threadVars >>

WeatherForecast ==
    /\ tool_call.tool = None
    /\ \E q \in ForecastQueries, geo1 \in GeoOutcomes, geo2 \in GeoOutcomes,
          fc \in ForecastOutcomes :
          tool_call' = [openmeteo_forecast_days(q, geo1, geo2, fc)
                          EXCEPT !.args = << q, geo1, geo2, fc >>]
    /\ UNCHANGED << queryVars, sessionVars, sourceVars, slotVars, threadVars >>

RAGTool ==
    /\ tool_call.tool = None
    /\ \E q \in RagQueries, chain \in ChainOutcomes :
          tool_call' = [rag_with_sources(q, chain) EXCEPT !.args = << q, chain >>]
    /\ UNCHANGED << queryVars, sessionVars, sourceVars, slotVars, threadVars >>

TripBudgetPlanner ==
    /\ tool_call.tool = None
    /\ \E json_input \in BudgetInputs, chains \in [1..3 -> ChainOutcomes] :
          tool_call' = [trip_budget_planner(json_input, chains)
                          EXCEPT !.args = << json_input, chains >>]
    /\ UNCHANGED << queryVars, sessionVars, sourceVars, slotVars, threadVars >>

\* the caller has the tool's text (or its exception); the facade is idle again
ToolReturn ==
    /\ tool_call.tool # None
    /\ tool_call' = NoToolCall
    /\ UNCHANGED << queryVars, sessionVars, sourceVars, slotVars, threadVars >>

ToolInit == InitQuery /\ InitSessions /\ InitTools /\ InitSources /\ InitSlots /\ InitThreads

ToolNext == WeatherTool \/ WeatherForecast \/ RAGTool \/ TripBudgetPlanner \/ ToolReturn

ToolSpec == ToolInit /\ [][ToolNext]_vars

ErrorIndicators ==
    {"Weather error", "Forecast error", "RAG query error", "TripBudgetPlanner error", "error"}

\* C9: whenever the external call of a capability fails, the capability returns a
\* text carrying an error indicator; nothing is raised to the caller.
C9_NoToolErrorEscapes ==
    tool_call.external_failed
        => /\ tool_call.kind = "returned"
           /\ \E ind \in ErrorIndicators : Contains(tool_call.text, ind)

\* a returned budget estimate (the input was a JSON record)
BudgetEstimate == tool_call.tool = "TripBudgetPlanner" /\ tool_call.prices # << >>

TextLines(text) == SplitOn(text, "\n")
HasLine(text, line) == \E i \in 1..Len(TextLines(text)) : TextLines(text)[i] = line
Priced == {i \in 1..3 : tool_call.prices[i] # NoPrice}
PriceOrZero(i) == IF i \in Priced THEN tool_call.prices[i] ELSE 0
SubtotalLine(i, days) ==
    Bullet \o " " \o ComponentLabels[i] \o ": $" \o NatToStr(tool_call.prices[i]) \o " "
    \o Times \o " " \o NatToStr(days) \o " = $" \o NatToStr(tool_call.prices[i] * days)
TotalLine(total) == "**Estimated Total: $" \o NatToStr(total) \o " AUD**"
MentionsSubtotal(text, i) == Contains(text, Bullet \o " " \o ComponentLabels[i] \o ": $")

\* C11: in a budget estimate for a day count above zero, every component with a
\* detected unit price p has the subtotal line "p x days = p * days", the estimated
\* total is the sum of exactly those subtotals, and a component without a detected
\* price has no subtotal line and adds nothing (no total at all when none is priced).
C11_TotalIsSumOfPricedSubtotals ==
    (BudgetEstimate /\ tool_call.days > 0)
        => LET days == tool_call.days
               sum == (PriceOrZero(1) + PriceOrZero(2) + PriceOrZero(3)) * days
           IN  /\ \A i \in Priced : HasLine(tool_call.text, SubtotalLine(i, days))
               /\ \A i \in (1..3) \ Priced : ~MentionsSubtotal(tool_call.text, i)
               /\ Len(tool_call.components) = Cardinality(Priced)
               /\ IF Priced # {}
                  THEN tool_call.total = sum /\ HasLine(tool_call.text, TotalLine(sum))
                  ELSE /\ tool_call.total = NoPrice
                       /\ ~Contains(tool_call.text, "Estimated Total")

C11_Witness ==
    /\ BudgetEstimate
    /\ tool_call.days = 4
    /\ tool_call.prices = << 50, NoPrice, 18 >>
    /\ tool_call.total = 272

\* the day count the estimator works with, for each of BudgetInputs
ExpectedDays(json_input) ==
    CASE Contains(json_input, "\"days\": 4}") -> 4
      [] Contains(json_input, "\"days\": 2.5}") -> 2
      [] OTHER -> 0

NoSubtotalsNoTotal ==
    /\ tool_call.components = << >>
    /\ tool_call.total = NoPrice
    /\ \A i \in 1..3 : ~MentionsSubtotal(tool_call.text, i)
    /\ ~Contains(tool_call.text, "Estimated Total")
    /\ HasLine(tool_call.text, NoTotalLine)

\* C12 as stated: a day count that is zero, negative or not an integer gives an
\* estimate without subtotal lines and without a total, with the "unable to compute
\* a total" message, whatever prices were detected.
C12_NonIntegerDaysGiveNoTotal ==
    (BudgetEstimate /\ ExpectedDays(tool_call.args[1]) # 4) => NoSubtotalsNoTotal

\* C12 amended: a day count of zero, a negative one and one that int() cannot
\* convert (null) are worked with as 0, and a count of 0 gives no subtotal line, no
\* total and the "unable to compute a total" message whatever prices were detected;
\* a fractional count is cut to its integer part (2.5 gives 2 days) and is then
\* estimated like any positive count.
C12_ZeroDaysGiveNoTotal ==
    BudgetEstimate
        => /\ tool_call.days = ExpectedDays(tool_call.args[1])
           /\ tool_call.days = 0 => NoSubtotalsNoTotal

C12_Witness ==
    /\ BudgetEstimate
    /\ Contains(tool_call.args[1], "\"days\": -2")
    /\ tool_call.days = 0
    /\ Priced = {1, 2, 3}
    /\ HasLine(tool_call.text, NoTotalLine)

\* a finished forecast call and its arguments
ForecastCall == tool_call.tool = "WeatherForecast"
FirstGeo == tool_call.args[2]
SecondGeo == tool_call.args[3]
Provider == tool_call.args[4]
Found(geo) == geo.kind = "returned" /\ geo.results >= 1
Asked == Len(tool_call.geocode_names)
GeocodeAvailable == IF Asked = 2 THEN Found(SecondGeo) ELSE Found(FirstGeo)

\* C17: a forecast call asks the geocoder once or twice; the second request, for
\* the location with ", AU" appended, is made only when the first returned no
\* results; without a geocoding result after that the forecast endpoint is not
\* called and the call returns a "Forecast error" text.
C17_GeocodeRetriedOnce ==
    ForecastCall
        => /\ Asked \in {1, 2}
           /\ Asked = 2
                 => /\ FirstGeo.kind = "returned" /\ FirstGeo.results = 0
                    /\ tool_call.geocode_names[2] = tool_call.geocode_names[1] \o ", AU"
           /\ tool_call.forecast_calls <= 1
           /\ ~GeocodeAvailable
                 => /\ tool_call.forecast_calls = 0
                    /\ tool_call.kind = "returned"
                    /\ StartsWith(tool_call.text, "Forecast error")

C17_Witness ==
    /\ ForecastCall
    /\ tool_call.geocode_names = << "Hobart", "Hobart, AU" >>
    /\ SecondGeo.kind = "returned" /\ SecondGeo.results = 0
    /\ tool_call.forecast_calls = 0
    /\ Contains(tool_call.text, "couldn't geocode 'Hobart'")

\* the day count each of ForecastQueries asks for, -1 when it names none
RequestedDays(q) ==
    CASE q = "5-day forecast in Launceston" -> 5
      [] q = "weather for 9 days in Strahan, AU" -> 9
      [] q = "Cradle Mountain 2 days" -> 2
      [] q = "forecast for 0 days in Hobart" -> 0
      [] OTHER -> -1

\* the requested count brought into 1..7, 3 when none is named
DaysUsed(q) ==
    LET r == RequestedDays(q)
    IN  IF r = -1 THEN 3 ELSE IF r < 1 THEN 1 ELSE IF r > 7 THEN 7 ELSE r

\* a forecast call that got as far as the provider's answer
ForecastAnswered ==
    ForecastCall /\ tool_call.forecast_calls = 1 /\ Provider.kind = "returned"

OneLinePerDay(days) ==
    /\ tool_call.day_lines = [i \in 1..days |-> i]
    /\ Len(TextLines(tool_call.text)) = days + 1
    /\ ~StartsWith(tool_call.text, "Forecast error")

InsufficientData(days) ==
    /\ tool_call.kind = "returned"
    /\ tool_call.day_lines = << >>
    /\ tool_call.text = "Forecast error: insufficient data for " \o NatToStr(days) \o " days."

\* C18 as stated: the day count is the requested count clamped into 1..7 (3 without
\* one); with at least days + 1 daily entries the output has one line per day, for
\* entries 1..days; with fewer it is the "insufficient data" error text.
C18_LinesOrInsufficientData ==
    /\ ForecastCall => tool_call.days = DaysUsed(tool_call.args[1])
    /\ ForecastAnswered
          => IF Provider.times >= tool_call.days + 1
             THEN OneLinePerDay(tool_call.days)
             ELSE InsufficientData(tool_call.days)

\* C18 amended: the day count is the requested count clamped into 1..7 (3 without
\* one).  Only the number of dates is compared with days + 1: with fewer dates the
\* result is the "insufficient data" error text.  With enough dates the output has
\* one line per day, for entries 1..days, when each of those entries has its three
\* values; when a value array is shorter or an entry holds a null the result is the
\* general "Forecast error for '<query>': <error>" text.  No case raises.
C18_ClampedDaysAndLines ==
    /\ ForecastCall => (tool_call.days = DaysUsed(tool_call.args[1])
                          /\ tool_call.kind = "returned")
    /\ ForecastAnswered
          => LET days == tool_call.days
             IN  IF Provider.times < days + 1 THEN InsufficientData(days)
                 ELSE IF Provider.values >= days + 1 /\ Provider.null_at \notin 1..days
                 THEN OneLinePerDay(days)
                 ELSE /\ tool_call.day_lines = << >>
                      /\ StartsWith(tool_call.text,
                                     "Forecast error for '" \o tool_call.args[1] \o "': ")

C18_Witness ==
    /\ ForecastAnswered
    /\ tool_call.args[1] = "weather for 9 days in Strahan, AU"
    /\ tool_call.days = 7
    /\ Provider.times = MaxDaily
    /\ tool_call.day_lines = << 1, 2, 3, 4, 5, 6, 7 >>

-----------------------------------------------------------------------------
(* Concurrent callers: process_query run by several threads at once.  The   *)
(* store is a plain defaultdict and a plain lru_cache, without a lock; a    *)
(* thread switch can fall between any two of the steps below.  Each thread   *)
(* makes one call; its query is answered by the loop.                       *)

NumThreads == 2
Threads == 1..NumThreads
ConcKeys == {"alice", "bob"}

IdleThread == [pc |-> "idle", sid |-> None, fresh |-> 0, ref |-> 0,
               exec |-> [sid |-> None, memory |-> 0, id |-> 0], href |-> 0,
               seen |-> << >>]

ConcInit ==
    /\ InitQuery /\ InitSessions /\ InitTools /\ InitSources /\ InitSlots
    /\ threads = [t \in Threads |-> IdleThread]

\* process_query(query, session_id) is entered
ConcCall(t, sid) ==
    /\ threads[t].pc = "idle"
    /\ threads' = [threads EXCEPT ![t].pc = "lookup", ![t].sid = sid]
    /\ UNCHANGED << queryVars, sessionVars, toolVars, sourceVars, slotVars >>

\* get_agent_executor: the lru_cache wrapper looks the key up; a hit returns the
\* cached executor, a miss goes on to call the wrapped function
CacheLookup(t) ==
    /\ threads[t].pc = "lookup"
    /\ IF \E i \in 1..Len(agent_cache) : agent_cache[i].sid = threads[t].sid
       THEN LET i == CHOOSE k \in 1..Len(agent_cache) :
                         agent_cache[k].sid = threads[t].sid
            IN  /\ agent_cache' = SubSeq(agent_cache, 1, i - 1)
                                  \o SubSeq(agent_cache, i + 1, Len(agent_cache))
                                  \o << agent_cache[i] >>
                /\ threads' = [threads EXCEPT ![t].pc = "invoke",
                                              ![t].exec = agent_cache[i]]
       ELSE /\ agent_cache' = agent_cache
            /\ threads' = [threads EXCEPT ![t].pc = "history"]
    /\ UNCHANGED << queryVars, session_histories, heap, n_queries, reset_result,
                    toolVars, sourceVars, slotVars >>

\* make_agent_executor -> get_memory -> session_histories[session_id]: a stored
\* key gives its history; a missing key makes the defaultdict call its factory,
\* which builds a new ChatMessageHistory that is not in the dict yet
HistoryLookup(t) ==
    /\ threads[t].pc = "history"
    /\ IF threads[t].sid \in DOMAIN session_histories
       THEN /\ heap' = heap
            /\ threads' = [threads EXCEPT ![t].pc = "build",
                                          ![t].ref = session_histories[threads[t].sid]]
       ELSE /\ heap' = Append(heap, << >>)
            /\ threads' = [threads EXCEPT ![t].pc = "insert",
                                          ![t].fresh = Len(heap) + 1]
    /\ UNCHANGED << queryVars, session_histories, agent_cache, n_queries,
                    reset_result, toolVars, sourceVars, slotVars >>

\* the defaultdict stores the factory's object under the key, whatever the key
\* holds by now, and returns it
HistoryInsert(t) ==
    /\ threads[t].pc = "insert"
    /\ session_histories' =
          [k \in DOMAIN session_histories \cup {threads[t].sid} |->
              IF k = threads[t].sid THEN threads[t].fresh ELSE session_histories[k]]
    /\ threads' = [threads EXCEPT ![t].pc = "build", ![t].ref = threads[t].fresh]
    /\ UNCHANGED << queryVars, heap, agent_cache, n_queries, reset_result,
                    toolVars, sourceVars, slotVars >>

\* the executor is built on the history the thread got; the lru_cache wrapper
\* stores it unless the key was stored meanwhile, and returns it either way
CacheStore(t) ==
    /\ threads[t].pc = "build"
    /\ LET e == [sid |-> threads[t].sid, memory |-> threads[t].ref, id |-> t]
           c == Append(agent_cache, e)
       IN  /\ agent_cache' =
                 IF \E i \in 1..Len(agent_cache) : agent_cache[i].sid = threads[t].sid
                 THEN agent_cache
                 ELSE IF Len(c) > CacheMaxSize THEN Tail(c) ELSE c
           /\ threads' = [threads EXCEPT ![t].pc = "invoke", ![t].exec = e]
    /\ UNCHANGED << queryVars, session_histories, heap, n_queries, reset_result,
                    toolVars, sourceVars, slotVars >>

\* executor.invoke begins: the runnable looks the stored history of the key up and
\* the chain's memory loads chat_history from the history the executor was built on
InvokeStart(t) ==
    /\ threads[t].pc = "invoke"
    /\ LET h == get_session_history(session_histories, heap, threads[t].sid)
       IN  /\ session_histories' = h.histories
           /\ heap' = h.heap
           /\ threads' = [threads EXCEPT ![t].pc = "running", ![t].href = h.ref,
                                         ![t].seen = h.heap[threads[t].exec.memory]]
    /\ UNCHANGED << queryVars, agent_cache, n_queries, reset_result,
                    toolVars, sourceVars, slotVars >>

\* executor.invoke returns: the turn is saved by the memory and by the runnable
InvokeFinish(t) ==
    /\ threads[t].pc = "running"
    /\ heap' = SaveTurn(heap, threads[t].exec, threads[t].href,
                        [sid |-> threads[t].sid, n |-> t])
    /\ threads' = [threads EXCEPT ![t].pc = "done"]
    /\ UNCHANGED << queryVars, session_histories, agent_cache, n_queries,
                    reset_result, toolVars, sourceVars, slotVars >>

ConcNext ==
    \E t \in Threads :
        \/ \E sid \in ConcKeys : ConcCall(t, sid)
        \/ CacheLookup(t)
        \/ HistoryLookup(t)
        \/ HistoryInsert(t)
        \/ CacheStore(t)
        \/ InvokeStart(t)
        \/ InvokeFinish(t)

ConcSpec == ConcInit /\ [][ConcNext]_vars

Bound(t) == threads[t].pc \in {"invoke", "running", "done"}

\* C15: concurrent queries on one key are bound to one executor and one history,
\* the one stored under the key; the turn of every finished query is in the stored
\* history of its key; and the history of a key holds only turns of that key.
C15_ConcurrentSafe ==
    /\ \A t, u \in DOMAIN threads :
          (Bound(t) /\ Bound(u) /\ threads[t].sid = threads[u].sid)
              => /\ threads[t].exec = threads[u].exec
                 /\ threads[t].exec.memory = session_histories[threads[t].sid]
    /\ \A t \in DOMAIN threads :
          threads[t].pc = "done"
              => [sid |-> threads[t].sid, n |-> t] \in Turns(History(threads[t].sid))
    /\ \A k \in DOMAIN session_histories : \A turn \in Turns(History(k)) : turn.sid = k

\* the same, for the harm only: a finished query's turn is missing from the stored
\* history of its key, or from the history the cached executor reads
TurnLost ==
    \E t \in DOMAIN threads :
        /\ \A u \in DOMAIN threads : threads[u].pc = "done"
        /\ LET turn == [sid |-> threads[t].sid, n |-> t]
           IN  \/ turn \notin Turns(History(threads[t].sid))
               \/ \E i \in 1..Len(agent_cache) :
                     /\ agent_cache[i].sid = threads[t].sid
                     /\ turn \notin Turns(heap[agent_cache[i].memory])

-----------------------------------------------------------------------------
(* The slot extractor, applied to texts made of a few words                 *)

MaxWords == 3

SlotWords == {"Plan", "the", "5", "days", "12days", "Hobart", ",", "  "}

\* the texts of up to MaxWords words, and a query that is no text
SlotQueries ==
    {Join(ws, " ") : ws \in UNION {[1..n -> SlotWords] : n \in 0..MaxWords}} \cup {None}

SlotInit ==
    /\ InitQuery /\ InitSessions /\ InitTools /\ InitSources /\ InitThreads
    /\ slot_query = None
    /\ slot_record = None

ExtractSlots ==
    /\ slot_record = None
    /\ \E q \in SlotQueries :
          /\ slot_query' = q
          /\ slot_record' = extract_place_and_days(q)
    /\ UNCHANGED << queryVars, sessionVars, toolVars, sourceVars, threadVars >>

\* the caller has the record; the next call starts afresh
SlotsReturn ==
    /\ slot_record # None
    /\ slot_query' = None
    /\ slot_record' = None
    /\ UNCHANGED << queryVars, sessionVars, toolVars, sourceVars, threadVars >>

SlotNext == ExtractSlots \/ SlotsReturn

SlotSpec == SlotInit /\ [][SlotNext]_vars

\* the record read back, as json.loads reads it
SlotRecord == LoadPlaceDays(slot_record)

\* C13: for every input (empty, blank, stop-words only, no text at all) the
\* extractor returns a serialized record with a non-empty place and an integer day
\* count; for an empty or blank input and on an internal error the record is the
\* default one, place "Tasmania" and days 3.
C13_AlwaysARecord ==
    slot_record # None
        => /\ SlotRecord.ok
           /\ SlotRecord.place # ""
           /\ SlotRecord.days.type = "int" /\ ~SlotRecord.days.neg
           /\ (slot_query = None \/ Strip(slot_query) = "")
                 => slot_record = "{\"place\": \"Tasmania\", \"days\": 3}"

C13_Witness ==
    /\ slot_query = "  "
    /\ slot_record = "{\"place\": \"Tasmania\", \"days\": 3}"

RECURSIVE WordsOf(_)
\* the words (runs of letters, digits and underscores) of a text
WordsOf(s) ==
    IF s = "" THEN {}
    ELSE IF IsWordChar(Ch(s, 1))
    THEN {Take(s, WordRunLen(s))} \cup WordsOf(Drop(s, WordRunLen(s)))
    ELSE WordsOf(Drop(s, 1))

HasDigit(s) == \E i \in 1..Len(s) : IsDigit(Ch(s, i))

\* the numerals of q that are followed by "day", leftmost first; q is made of SlotWords
RECURSIVE FirstDayNumeral(_)
FirstDayNumeral(ws) ==
    IF ws = << >> THEN DefaultDays
    ELSE IF Head(ws) = "12days" THEN 12
    ELSE IF Head(ws) = "5" /\ Len(ws) >= 2 /\ ws[2] = "days" THEN 5
    ELSE IF Head(ws) = "5" /\ Len(ws) >= 3 /\ ws[2] = "  " /\ ws[3] = "days" THEN 5
    ELSE FirstDayNumeral(Tail(ws))

\* C14: days is the first numeral followed by "day" or "days" (3 without one), and
\* the place holds no digit and none of the stop-words.
C14_PlaceWithoutStopWords ==
    (slot_record # None /\ slot_query # None)
        => /\ \E ws \in UNION {[1..n -> SlotWords] : n \in 0..MaxWords} :
                 Join(ws, " ") = slot_query /\ SlotRecord.days.n = FirstDayNumeral(ws)
           /\ ~HasDigit(SlotRecord.place)
           /\ \A w \in WordsOf(SlotRecord.place) : Lower(w) \notin StopWords

-----------------------------------------------------------------------------
(* The source extractor, applied to lists of tool invocation records        *)

MaxSteps == 3

Observations ==
    {"",
     "Search Results:\n1. Walks\n   Source: http://a.au\n   Source: http://b.au",
     "**Answer:** see the guide\n- http://a.au\n" \o Bullet \o " Source - http://b.au",
     "### Sources Used:\nSources:\n- backpacker_guide.pdf (p.3)",
     "Hobart is lovely.\nNo links here."}

StepRecords == {<< "Tool", obs >> : obs \in Observations}

SourceInit ==
    /\ InitQuery /\ InitSessions /\ InitTools /\ InitSlots /\ InitThreads
    /\ src_steps = << >>
    /\ src_out = None

ExtractSources ==
    /\ src_out = None
    /\ \E n \in 0..MaxSteps : \E steps \in [1..n -> StepRecords] :
          /\ src_steps' = steps
          /\ src_out' = extract_sources_from_steps(steps)
    /\ UNCHANGED << queryVars, sessionVars, toolVars, slotVars, threadVars >>

\* the caller has the citation text; the next call starts afresh
SourcesReturn ==
    /\ src_out # None
    /\ src_steps' = << >>
    /\ src_out' = None
    /\ UNCHANGED << queryVars, sessionVars, toolVars, slotVars, threadVars >>

SourceNext == ExtractSources \/ SourcesReturn

SourceSpec == SourceInit /\ [][SourceNext]_vars

\* the lines of an output text
OutLines(out) == IF out = "" THEN << >> ELSE SplitOn(out, "\n")

FirstAt(seq, x) == Least({i \in 1..Len(seq) : seq[i] = x})

\* C10: the output holds no citation line twice, holds every matching non-empty
\* cleaned line (once), in the order of the lines' first occurrence across the
\* observations, and is the empty string when no line matches.
C10_DedupedInOrder ==
    src_out # None
        => LET lines == OutLines(src_out)
               found == FoundInSteps(src_steps)
           IN  /\ \A i, j \in 1..Len(lines) : i # j => lines[i] # lines[j]
               /\ Turns(lines) = Turns(found)
               /\ \A i, j \in 1..Len(lines) :
                     i < j => FirstAt(found, lines[i]) < FirstAt(found, lines[j])
               /\ (found = << >>) <=> (src_out = "")

C10_Witness ==
    /\ src_out # None
    /\ Len(OutLines(src_out)) >= 2
    /\ Len(FoundInSteps(src_steps)) > Len(OutLines(src_out))

=============================================================================
